---- MODULE Spec2Model ----
(***************************************************************************)
(* A model of recipe_arbiter.py: the arbitration of conda recipes between  *)
(* the AnacondaRecipes organization (one "<name>-recipe" repository per    *)
(* recipe) and the ContinuumIO repositories (anaconda, anaconda-recipes).  *)
(*                                                                         *)
(* Spec     one run of complete_action: the repository listing, the two    *)
(*          corpus loads, calc_recipe_diff and the externalize or          *)
(*          internalize loop, one action per statement that has an effect  *)
(*          outside the process or that can raise.                         *)
(* SpecFingerprint                                                         *)
(*          get_recipe_contents on the two directories of one recipe, and  *)
(*          the ContentsEqual cell calc_recipe_diff gives the two results. *)
(* SpecLoad the loop of get_anaconda_recipe_contents over a directory of   *)
(*          recipes: get_recipe_contents per entry, merged by dict.update. *)
(* SpecClone                                                               *)
(*          invocations that load the clone of one repository: the         *)
(*          use_cache test, clone_repo one file operation at a time, the   *)
(*          checkout of master and the read; the process can be            *)
(*          terminated at any statement and the script started again.      *)
(* SpecSync the turn of one candidate recipe on the disk: Branch, Replace  *)
(*          one file operation at a time, Stage, Commit, Reconcile, with   *)
(*          termination, followed by the invocations of SpecClone.         *)
(***************************************************************************)
EXTENDS Integers, Sequences, FiniteSets, TLC

\* ------------------------------------------------------------------ bounds

\* Number of recipe names of the universe.
NumNames == 2

\* Number of distinct content signatures a recipe can have in a corpus.
NumSigs == 2

\* Largest page count the repository listing reports.
MaxPages == 2

\* Number of byte values a file is written with.
NumBytes == 2

\* Largest length of a file, in bytes.
MaxFileLen == 1

\* Largest number of files of a recipe directory.
MaxFiles == 3

\* Largest number of recipe roots of a directory of recipes.
MaxRoots == 2

\* The most invocations of the script, one after the other.
MaxInvocations == 2

\* ----------------------------------------------------------- recipe names

\* Recipe names are strings; the universe is the decimal numerals "9", "10",
\* "11", ... so that the order of Python's sorted() on str (code point by code
\* point, a proper prefix first) differs from the numeric order.
RECURSIVE Digits(_)
Digits(n) == IF n < 10 THEN <<n>> ELSE Append(Digits(n \div 10), n % 10)

RecipeNames == {Digits(8 + i) : i \in 1..NumNames}

Sigs == 1..NumSigs

\* A corpus: a dict from recipe name to signature.
Mappings == UNION {[D -> Sigs] : D \in SUBSET RecipeNames}

\* str.__lt__: the first differing character decides, a proper prefix is less.
StrLess(a, b) ==
    \/ /\ Len(a) < Len(b)
       /\ \A i \in 1..Len(a) : a[i] = b[i]
    \/ \E k \in 1..Len(a) :
          /\ k <= Len(b)
          /\ a[k] < b[k]
          /\ \A i \in 1..(k - 1) : a[i] = b[i]

\* A sort that keeps the set's elements but orders them the other way round.
RECURSIVE SortedDescending(_)
SortedDescending(S) ==
    IF S = {} THEN <<>>
    ELSE LET m == CHOOSE x \in S : \A y \in S \ {x} : StrLess(y, x)
         IN  <<m>> \o SortedDescending(S \ {m})

\* sorted(S) of a set of str.
RECURSIVE Sorted(_)
Sorted(S) ==
    IF S = {} THEN <<>>
    ELSE LET m == CHOOSE x \in S : \A y \in S \ {x} : StrLess(x, y)
         IN  <<m>> \o Sorted(S \ {m})

\* dict.update(other): the keys of other win.
DictUpdate(d, other) ==
    [k \in (DOMAIN d) \cup (DOMAIN other) |->
        IF k \in DOMAIN other THEN other[k] ELSE d[k]]

EmptyDict == [k \in {} |-> 0]

\* --------------------------------------------------------------- the table

\* The cells of the ContentsEqual column: the two booleans and pd.np.nan.
PyTrue == "True"
PyFalse == "False"
NaN == "NaN"

PyBool(b) == IF b THEN PyTrue ELSE PyFalse

\* calc_recipe_diff with the rows of the two corpora appended, not united.
CalcRecipeDiffAppended(public_recipes, dist_public_recipes) ==
    LET recipes == Sorted(DOMAIN dist_public_recipes) \o Sorted(DOMAIN public_recipes)
    IN  [i \in 1..Len(recipes) |->
            LET r == recipes[i]
            IN  [Recipe          |-> r,
                 AnacondaRecipes |-> r \in DOMAIN public_recipes,
                 ContinuumIO     |-> r \in DOMAIN dist_public_recipes,
                 ContentsEqual   |->
                     IF r \in DOMAIN public_recipes /\ r \in DOMAIN dist_public_recipes
                     THEN PyBool(public_recipes[r] = dist_public_recipes[r])
                     ELSE NaN]]

\* calc_recipe_diff comparing every row, a missing side read as signature 0.
CalcRecipeDiffNoNaN(public_recipes, dist_public_recipes) ==
    LET recipes == Sorted((DOMAIN dist_public_recipes) \cup (DOMAIN public_recipes))
        Get(d, r) == IF r \in DOMAIN d THEN d[r] ELSE 0
    IN  [i \in 1..Len(recipes) |->
            LET r == recipes[i]
            IN  [Recipe          |-> r,
                 AnacondaRecipes |-> r \in DOMAIN public_recipes,
                 ContinuumIO     |-> r \in DOMAIN dist_public_recipes,
                 ContentsEqual   |->
                     PyBool(Get(public_recipes, r) = Get(dist_public_recipes, r))]]

\* calc_recipe_diff: one row per name of the union, sorted by name.
CalcRecipeDiff(public_recipes, dist_public_recipes) ==
    LET recipes == Sorted((DOMAIN dist_public_recipes) \cup (DOMAIN public_recipes))
    IN  [i \in 1..Len(recipes) |->
            LET r == recipes[i]
            IN  [Recipe          |-> r,
                 AnacondaRecipes |-> r \in DOMAIN public_recipes,
                 ContinuumIO     |-> r \in DOMAIN dist_public_recipes,
                 ContentsEqual   |->
                     IF r \in DOMAIN public_recipes /\ r \in DOMAIN dist_public_recipes
                     THEN PyBool(public_recipes[r] = dist_public_recipes[r])
                     ELSE NaN]]

\* DataFrame.fillna(value): every nan cell becomes value.
FillNa(df, value) ==
    [i \in 1..Len(df) |->
        [df[i] EXCEPT !.ContentsEqual = IF @ = NaN THEN value ELSE @]]

\* ~column on a boolean column.
Invert(cell) == IF cell = PyTrue THEN PyFalse ELSE PyTrue

\* df[mask]: the rows whose mask cell is True, in the order of the table.
RECURSIVE MaskRows(_, _)
MaskRows(df, mask) ==
    IF Len(df) = 0 THEN <<>>
    ELSE (IF Head(mask) = PyTrue THEN <<Head(df)>> ELSE <<>>)
         \o MaskRows(Tail(df), Tail(mask))

\* The selection with the nan cells filled with False: they pass the mask.
RecipesToUpdateFillFalse(df) ==
    LET filled == FillNa(df, PyFalse)
        mask   == [i \in 1..Len(df) |-> Invert(filled[i].ContentsEqual)]
        rows   == MaskRows(df, mask)
    IN  [i \in 1..Len(rows) |-> rows[i].Recipe]

\* diff_df[~diff_df.fillna(True)['ContentsEqual']][['Recipe']]
RecipesToUpdate(df) ==
    LET filled == FillNa(df, PyTrue)
        mask   == [i \in 1..Len(df) |-> Invert(filled[i].ContentsEqual)]
        rows   == MaskRows(df, mask)
    IN  [i \in 1..Len(rows) |-> rows[i].Recipe]

\* ------------------------------------------------------------ API responses

\* What raise_on_err is given: a requests Response, or a decoded JSON payload.
OkResponse == [kind |-> "Response", ok |-> TRUE, message |-> FALSE]
ErrResponse == [kind |-> "Response", ok |-> FALSE, message |-> FALSE]
ErrPayload == [kind |-> "dict", ok |-> FALSE, message |-> TRUE]
ListPayload == [kind |-> "list", ok |-> TRUE, message |-> FALSE]

\* raise_on_err(resp) raises.
RaiseOnErr(resp) ==
    \/ resp.kind = "Response" /\ ~resp.ok
    \/ resp.kind = "dict" /\ resp.message

\* ------------------------------------------------------- repository names

\* The suffix of the name of a repository of AnacondaRecipes.
DashRecipe == <<45, 114, 101, 99, 105, 112, 101>>              \* '-recipe'

\* s.endswith(suffix)
EndsWith(s, suffix) ==
    /\ Len(s) >= Len(suffix)
    /\ SubSeq(s, Len(s) - Len(suffix) + 1, Len(s)) = suffix

\* s.split(sep, 1)[0]: what is before the first sep of s, or s without one
SplitHead(s, sep) ==
    LET at == {i \in 1..(Len(s) - Len(sep) + 1) : SubSeq(s, i, i + Len(sep) - 1) = sep}
    IN  IF at = {} THEN s
        ELSE SubSeq(s, 1, (CHOOSE m \in at : \A i \in at : m <= i) - 1)

\* The name of the repository of a recipe, and a name that breaks the
\* convention: '9-recipes'.
RepoNameOf(r) == r \o DashRecipe
OddRepoName == (Digits(9) \o DashRecipe) \o <<115>>
RepoNames == {RepoNameOf(r) : r \in RecipeNames} \cup {OddRepoName}

\* What a page of /orgs/AnacondaRecipes/repos can list: the repositories by
\* name, each with the signature of the recipe directory of its master.
RepoPages == UNION {[D -> Sigs] : D \in SUBSET RepoNames}

\* ------------------------------------------------------------------- state

VARIABLES
    action,               \* 'diff', 'externalize' or 'internalize'
    debug,                \* the -d/--debug flag
    pc,                   \* the statement complete_action is at
    npages,               \* get_anaconda_repo_contents: npages
    page_ct,              \* get_anaconda_repo_contents: page_ct
    seen,                 \* get_anaconda_repo_contents: seen
    external_recipes,     \* recipe_content_dict, then external_recipes
    dist_public_recipes,  \* get_anaconda_recipe_contents: dist_public_packages
    diff_df,              \* the table of calc_recipe_diff
    recipes_to_update,    \* the names of the selected rows
    row,                  \* position of the loop in recipes_to_update
    ops,                  \* the git, file and API operations done, in order
    \* SpecFingerprint
    fpc,                  \* the statement the fingerprinting is at
    external_tree,        \* the files of /tmp/AnacondaRecipes/<name>-recipe/recipe
    internal_tree,        \* the files of /tmp/anaconda-recipes/<name>
    external_contents,    \* get_recipe_contents of the first, external_recipes
    internal_contents,    \* get_recipe_contents of the second, dist_public_recipes
    contents_equal,       \* the ContentsEqual cell of the recipe's row
    \* SpecLoad
    lpc,                  \* the statement the load is at
    base_dir,             \* the directory the loop lists
    recipe_roots,         \* its directories that hold a meta.yaml, with their bytes
    listing,              \* the entries of os.listdir not yet visited
    dist_packages,        \* the dict the loop fills with dict.update
    \* SpecClone, SpecSync
    dpc,                  \* the statement the invocation is at
    invocation,           \* the number of the invocation of the script
    use_cache,            \* use_cache, the debug flag of the invocation
    direction,            \* the action of the first invocation
    left_behind,          \* the directory as the invocation before left it, and how it ended
    remote_tree,          \* the recipe files of master of the remote repository
    source_tree,          \* the recipe files of the directory Replace copies
    clone_dir,            \* the directory of the clone the sync writes to
    tmp_dir,              \* the directory at to_path + '.tmp'
    corpus                \* what get_recipe_contents read in the clone

run_vars == <<action, debug, pc, npages, page_ct, seen, external_recipes,
              dist_public_recipes, diff_df, recipes_to_update, row, ops>>

fingerprint_vars == <<fpc, external_tree, internal_tree, external_contents,
                      internal_contents, contents_equal>>

load_vars == <<lpc, base_dir, recipe_roots, listing, dist_packages>>

disk_vars == <<dpc, invocation, use_cache, direction, left_behind, remote_tree,
               source_tree, clone_dir, tmp_dir, corpus>>

vars == <<run_vars, fingerprint_vars, load_vars, disk_vars>>

\* The recipe field of an operation on the internal repository as a whole.
NoRecipe == <<>>

Op(name, recipe, ok) == [op |-> name, recipe |-> recipe, ok |-> ok]

InitRun ==
    /\ action \in {"diff", "externalize", "internalize"}
    /\ debug \in BOOLEAN
    /\ pc = "head"
    /\ npages = 0
    /\ page_ct = 0
    /\ seen = {}
    /\ external_recipes = EmptyDict
    /\ dist_public_recipes = EmptyDict
    /\ diff_df = <<>>
    /\ recipes_to_update = <<>>
    /\ row = 0
    /\ ops = <<>>

\* ------------------------------------------------- get_anaconda_repo_contents

\* GH_SESSION.head(...); raise_on_err(pages_header); npages = ...
GetPagesHeader ==
    /\ pc = "head"
    /\ \E resp \in {OkResponse, ErrResponse} :
          IF RaiseOnErr(resp)
          THEN /\ pc' = "raised"
               /\ ops' = Append(ops, Op("head", NoRecipe, FALSE))
               /\ UNCHANGED <<npages, page_ct>>
          ELSE /\ \E n \in 1..MaxPages : npages' = n
               /\ page_ct' = 1
               /\ pc' = "page"
               /\ ops' = ops
    /\ UNCHANGED <<fingerprint_vars, load_vars, disk_vars>>
    /\ UNCHANGED <<action, debug, seen, external_recipes, dist_public_recipes,
                   diff_df, recipes_to_update, row>>

\* The repositories of a page whose name fails the assertion of the loop.
OddRepos(public_repos) == {n \in DOMAIN public_repos : ~EndsWith(n, DashRecipe)}

\* What the loop over a page adds to recipe_content_dict: for every recipe
\* name not seen yet, the recipes of the clone of its repository.
ListedRecipes(public_repos) ==
    LET names == {SplitHead(n, DashRecipe) : n \in DOMAIN public_repos} \ seen
    IN  [r \in names |->
            public_repos[CHOOSE n \in DOMAIN public_repos : SplitHead(n, DashRecipe) = r]]

\* The end of a turn of the loop over the pages; after the last page the
\* function returns and its locals are gone.
EndOfPage(found) ==
    /\ external_recipes' = DictUpdate(external_recipes, found)
    /\ IF page_ct = npages
       THEN /\ pc' = "dist"
            /\ npages' = 0
            /\ page_ct' = 0
            /\ seen' = {}
       ELSE /\ pc' = "page"
            /\ npages' = npages
            /\ page_ct' = page_ct + 1
            /\ seen' = seen \cup DOMAIN found

\* The turn of a page without "assert repo_name.endswith('-recipe')".
GetReposPageNoAssert ==
    /\ pc = "page"
    /\ \/ /\ RaiseOnErr(ErrPayload)
          /\ pc' = "raised"
          /\ ops' = Append(ops, Op("page", NoRecipe, FALSE))
          /\ UNCHANGED <<npages, page_ct, seen, external_recipes>>
       \/ /\ ~RaiseOnErr(ListPayload)
          /\ \E public_repos \in RepoPages :
                /\ EndOfPage(ListedRecipes(public_repos))
                /\ IF OddRepos(public_repos) # {}
                   THEN ops' = Append(ops, Op("assert", CHOOSE n \in OddRepos(public_repos) : TRUE, FALSE))
                   ELSE ops' = ops
    /\ UNCHANGED <<fingerprint_vars, load_vars, disk_vars>>
    /\ UNCHANGED <<action, debug, dist_public_recipes, diff_df,
                   recipes_to_update, row>>

\* One turn of "for page_ct in range(1, npages+1)": the page is an error
\* payload, or a list of repositories. A repository whose name does not end
\* with '-recipe' fails the assertion, and the AssertionError ends the run; the
\* log keeps its name. Otherwise the repositories not seen yet are cloned and
\* fingerprinted.
GetReposPage ==
    /\ pc = "page"
    /\ \/ /\ RaiseOnErr(ErrPayload)
          /\ pc' = "raised"
          /\ ops' = Append(ops, Op("page", NoRecipe, FALSE))
          /\ UNCHANGED <<npages, page_ct, seen, external_recipes>>
       \/ /\ ~RaiseOnErr(ListPayload)
          /\ \E public_repos \in RepoPages :
                IF OddRepos(public_repos) # {}
                THEN /\ pc' = "raised"
                     /\ ops' = Append(ops, Op("assert", CHOOSE n \in OddRepos(public_repos) : TRUE, FALSE))
                     /\ UNCHANGED <<npages, page_ct, seen, external_recipes>>
                ELSE /\ EndOfPage(ListedRecipes(public_repos))
                     /\ ops' = ops
    /\ UNCHANGED <<fingerprint_vars, load_vars, disk_vars>>
    /\ UNCHANGED <<action, debug, dist_public_recipes, diff_df,
                   recipes_to_update, row>>

\* ----------------------------------------------- get_anaconda_recipe_contents

\* The clone of anaconda-recipes and the fingerprint of each of its recipe
\* directories.
GetAnacondaRecipeContents ==
    /\ pc = "dist"
    /\ \E dist_public_packages \in Mappings :
          dist_public_recipes' = dist_public_packages
    /\ pc' = "diff"
    /\ UNCHANGED <<fingerprint_vars, load_vars, disk_vars>>
    /\ UNCHANGED <<action, debug, npages, page_ct, seen, external_recipes,
                   diff_df, recipes_to_update, row, ops>>

\* ------------------------------------------------------------ get_recipe_diff

GetRecipeDiff ==
    /\ pc = "diff"
    /\ diff_df' = CalcRecipeDiff(external_recipes, dist_public_recipes)
    /\ pc' = "action"
    /\ UNCHANGED <<fingerprint_vars, load_vars, disk_vars>>
    /\ UNCHANGED <<action, debug, npages, page_ct, seen, external_recipes,
                   dist_public_recipes, recipes_to_update, row, ops>>

\* ------------------------------------------------------------ complete_action

\* A git command whose exit status is not looked at.
GitCommandUnchecked(name, recipe, next) ==
    \E ok \in BOOLEAN :
        /\ ops' = Append(ops, Op(name, recipe, ok))
        /\ pc' = next

\* A git command: it ends with exit status 0, or GitCommandError is raised and
\* nothing of complete_action catches it.
GitCommand(name, recipe, next) ==
    \E ok \in BOOLEAN :
        /\ ops' = Append(ops, Op(name, recipe, ok))
        /\ pc' = IF ok THEN next ELSE "raised"

\* A file operation of shutil that succeeds.
FileOp(name, recipe, next) ==
    /\ ops' = Append(ops, Op(name, recipe, TRUE))
    /\ pc' = next

\* The recipe of the current turn of the loop.
recipe_name == recipes_to_update[row]

\* The return of 'diff' after a branch has been made on the internal clone.
DiffReturnAfterBranch ==
    /\ pc = "action"
    /\ action = "diff"
    /\ GitCommand("branch", NoRecipe, "done")
    /\ UNCHANGED <<fingerprint_vars, load_vars, disk_vars>>
    /\ UNCHANGED <<action, debug, npages, page_ct, seen, external_recipes,
                   dist_public_recipes, diff_df, recipes_to_update, row>>

\* if action == 'diff': return 0
DiffReturn ==
    /\ pc = "action"
    /\ action = "diff"
    /\ pc' = "done"
    /\ UNCHANGED <<fingerprint_vars, load_vars, disk_vars>>
    /\ UNCHANGED <<action, debug, npages, page_ct, seen, external_recipes,
                   dist_public_recipes, diff_df, recipes_to_update, row, ops>>

\* ---- action == 'externalize'

\* recipes_to_update = diff_df[~diff_df.fillna(True)['ContentsEqual']]
ExternalizeSelect ==
    /\ pc = "action"
    /\ action = "externalize"
    /\ recipes_to_update' = RecipesToUpdate(diff_df)
    /\ row' = 1
    /\ pc' = "ext_next"
    /\ UNCHANGED <<fingerprint_vars, load_vars, disk_vars>>
    /\ UNCHANGED <<action, debug, npages, page_ct, seen, external_recipes,
                   dist_public_recipes, diff_df, ops>>

\* external_repo.git.checkout('master', b=branch_name)
ExternalizeBranch ==
    /\ pc = "ext_next"
    /\ row <= Len(recipes_to_update)
    /\ GitCommand("branch", recipe_name, "ext_replace")
    /\ UNCHANGED <<fingerprint_vars, load_vars, disk_vars>>
    /\ UNCHANGED <<action, debug, npages, page_ct, seen, external_recipes,
                   dist_public_recipes, diff_df, recipes_to_update, row>>

\* shutil.rmtree(external_recipe_dpath); shutil.copytree(internal_recipe_dpath, ...)
ExternalizeReplace ==
    /\ pc = "ext_replace"
    /\ FileOp("replace", recipe_name, "ext_stage")
    /\ UNCHANGED <<fingerprint_vars, load_vars, disk_vars>>
    /\ UNCHANGED <<action, debug, npages, page_ct, seen, external_recipes,
                   dist_public_recipes, diff_df, recipes_to_update, row>>

\* for untracked_file in external_repo.untracked_files: external_repo.git.add(...)
ExternalizeStage ==
    /\ pc = "ext_stage"
    /\ FileOp("stage", recipe_name, "ext_commit")
    /\ UNCHANGED <<fingerprint_vars, load_vars, disk_vars>>
    /\ UNCHANGED <<action, debug, npages, page_ct, seen, external_recipes,
                   dist_public_recipes, diff_df, recipes_to_update, row>>

\* external_repo.git.commit('-a', '-m', 'Update with internal changes')
ExternalizeCommit ==
    /\ pc = "ext_commit"
    /\ GitCommand("commit", recipe_name, "ext_merge")
    /\ UNCHANGED <<fingerprint_vars, load_vars, disk_vars>>
    /\ UNCHANGED <<action, debug, npages, page_ct, seen, external_recipes,
                   dist_public_recipes, diff_df, recipes_to_update, row>>

\* external_repo.git.merge('master')
ExternalizeMerge ==
    /\ pc = "ext_merge"
    /\ GitCommand("merge", recipe_name, "ext_publish")
    /\ UNCHANGED <<fingerprint_vars, load_vars, disk_vars>>
    /\ UNCHANGED <<action, debug, npages, page_ct, seen, external_recipes,
                   dist_public_recipes, diff_df, recipes_to_update, row>>

\* if debug: logging.info('Debug mode: Not opening PR ...'), and the next turn
ExternalizeDryRun ==
    /\ pc = "ext_publish"
    /\ debug
    /\ row' = row + 1
    /\ pc' = "ext_next"
    /\ UNCHANGED <<fingerprint_vars, load_vars, disk_vars>>
    /\ UNCHANGED <<action, debug, npages, page_ct, seen, external_recipes,
                   dist_public_recipes, diff_df, recipes_to_update, ops>>

\* else: external_repo.git.push('origin', branch_name)
ExternalizePush ==
    /\ pc = "ext_publish"
    /\ ~debug
    /\ GitCommand("push", recipe_name, "ext_pull")
    /\ UNCHANGED <<fingerprint_vars, load_vars, disk_vars>>
    /\ UNCHANGED <<action, debug, npages, page_ct, seen, external_recipes,
                   dist_public_recipes, diff_df, recipes_to_update, row>>

\* GH_SESSION.post(.../pulls, ...): the response is dropped, and the next turn
ExternalizePullRequest ==
    /\ pc = "ext_pull"
    /\ \E resp \in {OkResponse, ErrResponse} :
          ops' = Append(ops, Op("pull", recipe_name, resp.ok))
    /\ row' = row + 1
    /\ pc' = "ext_next"
    /\ UNCHANGED <<fingerprint_vars, load_vars, disk_vars>>
    /\ UNCHANGED <<action, debug, npages, page_ct, seen, external_recipes,
                   dist_public_recipes, diff_df, recipes_to_update>>

\* the loop is over: return 0
ExternalizeReturn ==
    /\ pc = "ext_next"
    /\ row > Len(recipes_to_update)
    /\ pc' = "done"
    /\ UNCHANGED <<fingerprint_vars, load_vars, disk_vars>>
    /\ UNCHANGED <<action, debug, npages, page_ct, seen, external_recipes,
                   dist_public_recipes, diff_df, recipes_to_update, row, ops>>

\* ---- action == 'internalize'

\* internal_repo.git.checkout('master', b=branch_name), once, before the loop
InternalizeBranch ==
    /\ pc = "action"
    /\ action = "internalize"
    /\ GitCommand("branch", NoRecipe, "int_select")
    /\ UNCHANGED <<fingerprint_vars, load_vars, disk_vars>>
    /\ UNCHANGED <<action, debug, npages, page_ct, seen, external_recipes,
                   dist_public_recipes, diff_df, recipes_to_update, row>>

\* recipes_to_update = diff_df[~diff_df.fillna(True)['ContentsEqual']]
InternalizeSelect ==
    /\ pc = "int_select"
    /\ recipes_to_update' = RecipesToUpdate(diff_df)
    /\ row' = 1
    /\ pc' = "int_next"
    /\ UNCHANGED <<fingerprint_vars, load_vars, disk_vars>>
    /\ UNCHANGED <<action, debug, npages, page_ct, seen, external_recipes,
                   dist_public_recipes, diff_df, ops>>

\* The turn of a recipe goes on to the replace whatever os.path.isdir says.
InternalizeCheckDirNoSkip ==
    /\ pc = "int_next"
    /\ row <= Len(recipes_to_update)
    /\ \E isdir \in BOOLEAN :
          /\ ops' = Append(ops, Op("isdir", recipe_name, isdir))
          /\ pc' = "int_replace"
          /\ row' = row
    /\ UNCHANGED <<fingerprint_vars, load_vars, disk_vars>>
    /\ UNCHANGED <<action, debug, npages, page_ct, seen, external_recipes,
                   dist_public_recipes, diff_df, recipes_to_update>>

\* if not os.path.isdir(internal_recipe_dpath): logging.error(...); continue
InternalizeCheckDir ==
    /\ pc = "int_next"
    /\ row <= Len(recipes_to_update)
    /\ \E isdir \in BOOLEAN :
          /\ ops' = Append(ops, Op("isdir", recipe_name, isdir))
          /\ IF isdir
             THEN /\ pc' = "int_replace"
                  /\ row' = row
             ELSE /\ pc' = "int_next"
                  /\ row' = row + 1
    /\ UNCHANGED <<fingerprint_vars, load_vars, disk_vars>>
    /\ UNCHANGED <<action, debug, npages, page_ct, seen, external_recipes,
                   dist_public_recipes, diff_df, recipes_to_update>>

\* os.path.isdir(internal_recipe_dpath), as the last check of it said.
InternalDirExists ==
    \E i \in 1..Len(ops) :
        /\ ops[i] = Op("isdir", recipe_name, TRUE)
        /\ \A j \in (i + 1)..Len(ops) : ops[j].op # "isdir"

\* shutil.rmtree(internal_recipe_dpath), which raises when the directory is
\* missing; shutil.copytree(external_recipe_dpath, internal_recipe_dpath)
InternalizeReplace ==
    /\ pc = "int_replace"
    /\ IF InternalDirExists
       THEN FileOp("replace", recipe_name, "int_stage")
       ELSE /\ ops' = Append(ops, Op("replace", recipe_name, FALSE))
            /\ pc' = "raised"
    /\ UNCHANGED <<fingerprint_vars, load_vars, disk_vars>>
    /\ UNCHANGED <<action, debug, npages, page_ct, seen, external_recipes,
                   dist_public_recipes, diff_df, recipes_to_update, row>>

\* for untracked_file in internal_repo.untracked_files: internal_repo.git.add(...)
InternalizeStage ==
    /\ pc = "int_stage"
    /\ FileOp("stage", recipe_name, "int_commit")
    /\ UNCHANGED <<fingerprint_vars, load_vars, disk_vars>>
    /\ UNCHANGED <<action, debug, npages, page_ct, seen, external_recipes,
                   dist_public_recipes, diff_df, recipes_to_update, row>>

\* internal_repo.git.commit('-a', '-m', 'Update {} recipe with external changes')
InternalizeCommit ==
    /\ pc = "int_commit"
    /\ GitCommand("commit", recipe_name, "int_merge")
    /\ UNCHANGED <<fingerprint_vars, load_vars, disk_vars>>
    /\ UNCHANGED <<action, debug, npages, page_ct, seen, external_recipes,
                   dist_public_recipes, diff_df, recipes_to_update, row>>

\* internal_repo.git.merge('master'), and the next turn
InternalizeMerge ==
    /\ pc = "int_merge"
    /\ \E ok \in BOOLEAN :
          /\ ops' = Append(ops, Op("merge", recipe_name, ok))
          /\ IF ok
             THEN /\ pc' = "int_next"
                  /\ row' = row + 1
             ELSE /\ pc' = "raised"
                  /\ row' = row
    /\ UNCHANGED <<fingerprint_vars, load_vars, disk_vars>>
    /\ UNCHANGED <<action, debug, npages, page_ct, seen, external_recipes,
                   dist_public_recipes, diff_df, recipes_to_update>>

\* The return after the loop without the push, whatever debug is.
InternalizeDryRunUnguarded ==
    /\ pc = "int_next"
    /\ row > Len(recipes_to_update)
    /\ pc' = "done"
    /\ UNCHANGED <<fingerprint_vars, load_vars, disk_vars>>
    /\ UNCHANGED <<action, debug, npages, page_ct, seen, external_recipes,
                   dist_public_recipes, diff_df, recipes_to_update, row, ops>>

\* after the loop, if debug: logging.info('Debug mode: Not opening PR ...'); return 0
InternalizeDryRun ==
    /\ pc = "int_next"
    /\ row > Len(recipes_to_update)
    /\ debug
    /\ pc' = "done"
    /\ UNCHANGED <<fingerprint_vars, load_vars, disk_vars>>
    /\ UNCHANGED <<action, debug, npages, page_ct, seen, external_recipes,
                   dist_public_recipes, diff_df, recipes_to_update, row, ops>>

\* else: internal_repo.git.push('origin', branch_name)
InternalizePush ==
    /\ pc = "int_next"
    /\ row > Len(recipes_to_update)
    /\ ~debug
    /\ GitCommand("push", NoRecipe, "int_pull")
    /\ UNCHANGED <<fingerprint_vars, load_vars, disk_vars>>
    /\ UNCHANGED <<action, debug, npages, page_ct, seen, external_recipes,
                   dist_public_recipes, diff_df, recipes_to_update, row>>

\* GH_SESSION.post(.../repos/ContinuumIO/anaconda/pulls, ...); return 0
InternalizePullRequest ==
    /\ pc = "int_pull"
    /\ \E resp \in {OkResponse, ErrResponse} :
          ops' = Append(ops, Op("pull", NoRecipe, resp.ok))
    /\ pc' = "done"
    /\ UNCHANGED <<fingerprint_vars, load_vars, disk_vars>>
    /\ UNCHANGED <<action, debug, npages, page_ct, seen, external_recipes,
                   dist_public_recipes, diff_df, recipes_to_update, row>>

\* -------------------------------------------------------- get_recipe_contents

\* File and directory names are str, given as the sequences of their code
\* points; a path is the sequence of its components, and a file system is a
\* function from the paths of its files to their bytes.
MetaYaml == <<109, 101, 116, 97, 46, 121, 97, 109, 108>>       \* 'meta.yaml'
BuildSh == <<98, 117, 105, 108, 100, 46, 115, 104>>            \* 'build.sh'
RecipeStr == <<114, 101, 99, 105, 112, 101>>                   \* 'recipe'
DotGit == <<46, 103, 105, 116>>                                \* '.git'
BuildDir == <<66, 85, 73, 76, 68>>                             \* 'BUILD'
AnacondaRecipesStr ==
    <<97, 110, 97, 99, 111, 110, 100, 97, 45, 114, 101, 99, 105, 112, 101, 115>>  \* 'anaconda-recipes'
AnacondaStr == <<97, 110, 97, 99, 111, 110, 100, 97>>          \* 'anaconda'
PackagesStr == <<112, 97, 99, 107, 97, 103, 101, 115>>         \* 'packages'
StrX == <<120>>                                                \* 'x'
StrY == <<121>>                                                \* 'y'
StrXRecipe == <<120, 45, 114, 101, 99, 105, 112, 101>>         \* 'x-recipe'
StrA == <<97>>                                                 \* 'a'
StrB == <<98>>                                                 \* 'b'

Bytes == 0..(NumBytes - 1)

\* The contents a file can have.
FileContents == UNION {[1..n -> Bytes] : n \in 0..MaxFileLen}

\* os.path.basename, os.path.dirname
Basename(path) == path[Len(path)]
Dirname(path) == SubSeq(path, 1, Len(path) - 1)

\* sub in s
Contains(s, sub) ==
    \E i \in 1..(Len(s) - Len(sub) + 1) : SubSeq(s, i, i + Len(sub) - 1) = sub

\* s.rsplit(sep, 1)[0]: what is before the last sep of s, or s without one
RSplitHead(s, sep) ==
    LET at == {i \in 1..(Len(s) - Len(sep) + 1) : SubSeq(s, i, i + Len(sep) - 1) = sep}
    IN  IF at = {} THEN s
        ELSE SubSeq(s, 1, (CHOOSE m \in at : \A i \in at : i <= m) - 1)

\* '.git' in root
HasGit(root) == \E k \in 1..Len(root) : Contains(root[k], DotGit)

\* The directories the first walk skips.
SkippedRoot(root) ==
    \/ HasGit(root)
    \/ /\ Len(root) >= 2
       /\ Basename(root) = BuildDir
       /\ Basename(Dirname(root)) = AnacondaRecipesStr

\* The directories os.walk(top) visits: top and what is below it.
DirsUnder(fs, top) ==
    UNION {{SubSeq(p, 1, k) : k \in Len(top)..(Len(p) - 1)} :
              p \in {q \in DOMAIN fs : Len(q) > Len(top)
                                        /\ SubSeq(q, 1, Len(top)) = top}}

\* The files of a directory, as os.walk gives them.
FilesIn(fs, dir) == {Basename(p) : p \in {q \in DOMAIN fs : Dirname(q) = dir}}

\* The names of the directories below top.
DirNamesUnder(fs, top) == {Basename(d) : d \in DirsUnder(fs, top) \ {top}}

\* The orders a set can be listed in.
Perms(S) ==
    {f \in [1..Cardinality(S) -> S] : \A i, j \in 1..Cardinality(S) : i # j => f[i] # f[j]}

\* The sub-directories of dir in the order os.scandir lists them: rank is that
\* order, on the names.
RECURSIVE Children(_, _, _)
Children(dirs, dir, rank) ==
    IF rank = <<>> THEN <<>>
    ELSE (IF Append(dir, Head(rank)) \in dirs THEN <<Append(dir, Head(rank))>> ELSE <<>>)
         \o Children(dirs, dir, Tail(rank))

\* os.walk: top-down, a directory before its sub-directories; todo is the
\* stack of the directories still to visit.
RECURSIVE Walk(_, _, _)
Walk(dirs, todo, rank) ==
    IF todo = <<>> THEN <<>>
    ELSE <<Head(todo)>> \o Walk(dirs, Children(dirs, Head(todo), rank) \o Tail(todo), rank)

\* for fname in sorted(files): recipe_contents += file_contents
RECURSIVE ReadFiles(_, _, _)
ReadFiles(fs, root, fnames) ==
    IF fnames = <<>> THEN <<>>
    ELSE fs[Append(root, Head(fnames))] \o ReadFiles(fs, root, Tail(fnames))

\* The second walk: the bytes of the files of every directory visited, but
\* those with '.git' in their path.
RECURSIVE ReadDirs(_, _)
ReadDirs(fs, roots) ==
    IF roots = <<>> THEN <<>>
    ELSE (IF HasGit(Head(roots)) THEN <<>>
          ELSE ReadFiles(fs, Head(roots), Sorted(FilesIn(fs, Head(roots)))))
         \o ReadDirs(fs, Tail(roots))

\* base64.b64encode: three bytes give four digits of 0..63; 64 is the pad '='.
RECURSIVE B64Encode(_)
B64Encode(bs) ==
    IF Len(bs) = 0 THEN <<>>
    ELSE IF Len(bs) = 1
    THEN LET n == bs[1] * 65536
         IN  <<n \div 262144, (n \div 4096) % 64, 64, 64>>
    ELSE IF Len(bs) = 2
    THEN LET n == bs[1] * 65536 + bs[2] * 256
         IN  <<n \div 262144, (n \div 4096) % 64, (n \div 64) % 64, 64>>
    ELSE LET n == bs[1] * 65536 + bs[2] * 256 + bs[3]
         IN  <<n \div 262144, (n \div 4096) % 64, (n \div 64) % 64, n % 64>>
             \o B64Encode(SubSeq(bs, 4, Len(bs)))

\* The recipe name of a recipe directory.
RecipeNameOf(recipe_dir) ==
    IF Basename(recipe_dir) = RecipeStr
    THEN RSplitHead(Basename(Dirname(recipe_dir)), DashRecipe)
    ELSE Basename(recipe_dir)

\* The first loop: the directories with a meta.yaml.
RecipeDirs(fs, repo_dir) ==
    {root \in DirsUnder(fs, repo_dir) :
        ~SkippedRoot(root) /\ MetaYaml \in FilesIn(fs, root)}

\* The second loop, over the recipe directories in the order the set gives
\* them: contents_dict[recipe_name] = base64.b64encode(recipe_contents)
RECURSIVE FillContents(_, _, _, _)
FillContents(fs, recipe_dirs, rank, contents_dict) ==
    IF recipe_dirs = <<>> THEN contents_dict
    ELSE LET recipe_dir == Head(recipe_dirs)
             recipe_contents ==
                 ReadDirs(fs, Walk(DirsUnder(fs, recipe_dir), <<recipe_dir>>, rank))
             item == [n \in {RecipeNameOf(recipe_dir)} |-> B64Encode(recipe_contents)]
         IN  FillContents(fs, Tail(recipe_dirs), rank, DictUpdate(contents_dict, item))

\* get_recipe_contents(repo_dir), with the order rank of os.scandir on the
\* directory names and the order set_order of the set recipe_dirs.
GetRecipeContents(fs, repo_dir, rank, set_order) ==
    FillContents(fs, set_order, rank, EmptyDict)

\* The results get_recipe_contents(repo_dir) can have.
RecipeContentsOf(fs, repo_dir) ==
    {GetRecipeContents(fs, repo_dir, rank, set_order) :
        rank \in Perms(DirNamesUnder(fs, repo_dir)),
        set_order \in Perms(RecipeDirs(fs, repo_dir))}

\* ------------------------------------------------------------ SpecFingerprint

\* The two directories of recipe 'x': the recipe directory of the clone of
\* AnacondaRecipes/x-recipe, and the directory of x in anaconda-recipes.
ExternalRecipeDir == <<StrXRecipe, RecipeStr>>
InternalRecipeDir == <<AnacondaRecipesStr, StrX>>

\* The subsets of S of at most n elements.
RECURSIVE SubsetsUpTo(_, _)
SubsetsUpTo(S, n) ==
    IF n = 0 THEN {{}}
    ELSE LET smaller == SubsetsUpTo(S, n - 1)
         IN  smaller \cup {X \cup {e} : X \in smaller, e \in S}

\* The files a recipe directory can hold, relative to it: a meta.yaml and at
\* most MaxFiles - 1 more: a build.sh next to it, one in a/ and one in b/.
RelativePaths == {<<MetaYaml>>, <<BuildSh>>, <<StrA, BuildSh>>, <<StrB, BuildSh>>}

Trees ==
    UNION {[D -> FileContents] :
              D \in {X \in SubsetsUpTo(RelativePaths, MaxFiles) : <<MetaYaml>> \in X}}

\* The file system that holds tree at dir.
Placed(dir, tree) ==
    [p \in {dir \o q : q \in DOMAIN tree} |-> tree[SubSeq(p, Len(dir) + 1, Len(p))]]

InitFingerprint ==
    /\ fpc = "external"
    /\ external_tree \in Trees
    /\ internal_tree \in Trees
    /\ external_contents = EmptyDict
    /\ internal_contents = EmptyDict
    /\ contents_equal = "none"

IdleFingerprint ==
    /\ fpc = "idle"
    /\ external_tree = EmptyDict
    /\ internal_tree = EmptyDict
    /\ external_contents = EmptyDict
    /\ internal_contents = EmptyDict
    /\ contents_equal = "none"

\* get_anaconda_repo_contents: get_recipe_contents(recipe_dir)
FingerprintExternal ==
    /\ fpc = "external"
    /\ external_contents' \in
          RecipeContentsOf(Placed(ExternalRecipeDir, external_tree), ExternalRecipeDir)
    /\ fpc' = "internal"
    /\ UNCHANGED <<external_tree, internal_tree, internal_contents, contents_equal>>
    /\ UNCHANGED <<run_vars, load_vars, disk_vars>>

\* get_anaconda_recipe_contents: get_recipe_contents(recipe_dpath)
FingerprintInternal ==
    /\ fpc = "internal"
    /\ internal_contents' \in
          RecipeContentsOf(Placed(InternalRecipeDir, internal_tree), InternalRecipeDir)
    /\ fpc' = "diff"
    /\ UNCHANGED <<external_tree, internal_tree, external_contents, contents_equal>>
    /\ UNCHANGED <<run_vars, load_vars, disk_vars>>

\* calc_recipe_diff(external_recipes, dist_public_recipes): the cell of 'x'
FingerprintDiff ==
    /\ fpc = "diff"
    /\ LET df == CalcRecipeDiff(external_contents, internal_contents)
           i  == CHOOSE j \in 1..Len(df) : df[j].Recipe = StrX
       IN  contents_equal' = df[i].ContentsEqual
    /\ fpc' = "done"
    /\ UNCHANGED <<external_tree, internal_tree, external_contents, internal_contents>>
    /\ UNCHANGED <<run_vars, load_vars, disk_vars>>

NextFingerprint ==
    \/ FingerprintExternal
    \/ FingerprintInternal
    \/ FingerprintDiff

\* ------------------------------------------------------------------- SpecLoad

\* The directories the two loops of get_anaconda_recipe_contents list.
BaseDirs == {<<AnacondaStr, PackagesStr>>, <<AnacondaRecipesStr>>}

\* The names a directory below them can have.
EntryNames == {StrX, StrY, StrXRecipe, RecipeStr, BuildDir, DotGit}

\* The directories with a meta.yaml: entries of the base directory and their
\* sub-directories, at most MaxRoots of them.
RootsOf(base) ==
    {base \o <<a>> : a \in EntryNames} \cup {base \o <<a, b>> : a, b \in EntryNames}

LoadInputs(base) ==
    UNION {[{Append(root, MetaYaml) : root \in R} -> FileContents] :
              R \in SubsetsUpTo(RootsOf(base), MaxRoots)}

InitLoad ==
    /\ lpc = "listdir"
    /\ base_dir \in BaseDirs
    /\ recipe_roots \in LoadInputs(base_dir)
    /\ listing = {}
    /\ dist_packages = EmptyDict

IdleLoad ==
    /\ lpc = "idle"
    /\ base_dir = <<>>
    /\ recipe_roots = EmptyDict
    /\ listing = {}
    /\ dist_packages = EmptyDict

\* os.listdir(pkgs_dir)
LoadListDir ==
    /\ lpc = "listdir"
    /\ listing' = {p[Len(base_dir) + 1] : p \in DOMAIN recipe_roots}
    /\ lpc' = "loop"
    /\ UNCHANGED <<base_dir, recipe_roots, dist_packages>>
    /\ UNCHANGED <<run_vars, fingerprint_vars, disk_vars>>

\* One turn of "for recipe_dir in os.listdir(pkgs_dir)", the entries in the
\* order os.listdir gives them:
\* dist_packages.update(get_recipe_contents(recipe_dpath))
LoadRecipeDir ==
    /\ lpc = "loop"
    /\ \E recipe_dir \in listing :
          /\ \E contents_dict \in RecipeContentsOf(recipe_roots, Append(base_dir, recipe_dir)) :
                dist_packages' = DictUpdate(dist_packages, contents_dict)
          /\ listing' = listing \ {recipe_dir}
    /\ UNCHANGED <<lpc, base_dir, recipe_roots>>
    /\ UNCHANGED <<run_vars, fingerprint_vars, disk_vars>>

\* The loop is over and the dict is returned.
LoadReturn ==
    /\ lpc = "loop"
    /\ listing = {}
    /\ lpc' = "loaded"
    /\ UNCHANGED <<base_dir, recipe_roots, listing, dist_packages>>
    /\ UNCHANGED <<run_vars, fingerprint_vars, disk_vars>>

NextLoad ==
    \/ LoadListDir
    \/ LoadRecipeDir
    \/ LoadReturn

\* ----------------------------------------------------- clone_repo and the disk

\* The files of the recipe directory of a clone, relative to it, and what they
\* hold.
DiskPaths == {<<MetaYaml>>, <<BuildSh>>}
DiskContents == {<<b>> : b \in Bytes}
DiskTrees ==
    UNION {[D -> DiskContents] : D \in {X \in SUBSET DiskPaths : <<MetaYaml>> \in X}}

\* A directory of WORK_DIR that holds, or is to hold, a clone: exists is
\* os.path.isdir of it, git says that its .git is there, recipe that its
\* recipe directory is there, files are the files of the recipe directory, head
\* is the branch checked out and branch_tree what is committed on the branch
\* the sync made.
AbsentDir ==
    [exists |-> FALSE, git |-> FALSE, recipe |-> FALSE, files |-> EmptyDict,
     head |-> "master", branch_tree |-> EmptyDict]

\* The directory git clone leaves when it has finished: master of the remote.
FreshClone(tree) ==
    [exists |-> TRUE, git |-> TRUE, recipe |-> tree # EmptyDict, files |-> tree,
     head |-> "master", branch_tree |-> tree]

\* A tree without the file at p, and with bytes c at p.
Without(tree, p) == [q \in DOMAIN tree \ {p} |-> tree[q]]
With(tree, p, c) == [q \in DOMAIN tree \cup {p} |-> IF q = p THEN c ELSE tree[q]]

\* shutil.rmtree of a recipe directory takes its entries away one at a time,
\* and the directory last: the states one removal leads to.
RmtreeRecipeSteps(d) ==
    {[d EXCEPT !.files = Without(d.files, p)] : p \in DOMAIN d.files}
    \cup (IF d.recipe /\ d.files = EmptyDict THEN {[d EXCEPT !.recipe = FALSE]} ELSE {})

\* shutil.rmtree of the directory of a clone: its .git, its recipe directory,
\* and the directory itself last.
RmtreeSteps(d) ==
    (IF d.git THEN {[d EXCEPT !.git = FALSE]} ELSE {})
    \cup RmtreeRecipeSteps(d)
    \cup (IF ~d.git /\ ~d.recipe /\ d.files = EmptyDict THEN {AbsentDir} ELSE {})

\* git.Repo.clone_from(url, to_path + '.tmp'): the directory is made, .git is
\* fetched, then the files of master are checked out one at a time.
CloneSteps(d, tree) ==
    IF ~d.exists THEN {[AbsentDir EXCEPT !.exists = TRUE]}
    ELSE IF ~d.git THEN {[d EXCEPT !.git = TRUE, !.branch_tree = tree]}
    ELSE {[d EXCEPT !.recipe = TRUE, !.files = With(d.files, p, tree[p])] :
             p \in DOMAIN tree \ DOMAIN d.files}

\* What the first invocation finds of an invocation before it: nothing.
NothingFound == [dir |-> AbsentDir, after |-> "none"]

\* The statements at which the process is running and can be terminated.
RunningAt ==
    {"check", "clone_rm", "clone_tmp", "clone_from", "move", "open", "fingerprint",
     "branch", "isdir", "rmtree", "copytree", "stage", "commit", "merge"}

IdleDisk ==
    /\ dpc = "idle"
    /\ invocation = 0
    /\ use_cache = FALSE
    /\ direction = "none"
    /\ remote_tree = EmptyDict
    /\ source_tree = EmptyDict
    /\ clone_dir = AbsentDir
    /\ tmp_dir = AbsentDir
    /\ left_behind = NothingFound
    /\ corpus = EmptyDict

\* An invocation at "if not use_cache or not os.path.isdir(repo_dir)": the
\* directory is absent or holds the clone an earlier invocation made, and a
\* clone that failed may have left its '.tmp' directory.
InitClone ==
    /\ dpc = "check"
    /\ invocation = 1
    /\ use_cache \in BOOLEAN
    /\ direction = "none"
    /\ remote_tree \in DiskTrees
    /\ source_tree = EmptyDict
    /\ clone_dir \in {AbsentDir, FreshClone(remote_tree)}
    /\ tmp_dir \in {AbsentDir, [AbsentDir EXCEPT !.exists = TRUE]}
    /\ left_behind = NothingFound
    /\ corpus = EmptyDict

\* The clone is made whatever use_cache says only when the directory is absent.
CheckCacheIgnoresFlag ==
    /\ dpc = "check"
    /\ dpc' = IF ~clone_dir.exists THEN "clone_rm" ELSE "open"
    /\ UNCHANGED <<invocation, use_cache, direction, left_behind, remote_tree,
                   source_tree, clone_dir, tmp_dir, corpus>>
    /\ UNCHANGED <<run_vars, fingerprint_vars, load_vars>>

\* if not use_cache or not os.path.isdir(repo_dir): clone_repo(repo_dir, ...)
CheckCache ==
    /\ dpc = "check"
    /\ dpc' = IF ~use_cache \/ ~clone_dir.exists THEN "clone_rm" ELSE "open"
    /\ UNCHANGED <<invocation, use_cache, direction, left_behind, remote_tree,
                   source_tree, clone_dir, tmp_dir, corpus>>
    /\ UNCHANGED <<run_vars, fingerprint_vars, load_vars>>

\* clone_repo: if os.path.isdir(to_path): shutil.rmtree(to_path), one removal
\* at a time. The parent directory is there (a directory of WORK_DIR).
CloneRmtreeTarget ==
    /\ dpc = "clone_rm"
    /\ IF clone_dir.exists
       THEN /\ clone_dir' \in RmtreeSteps(clone_dir)
            /\ dpc' = dpc
       ELSE /\ clone_dir' = clone_dir
            /\ dpc' = "clone_tmp"
    /\ UNCHANGED <<invocation, use_cache, direction, left_behind, remote_tree,
                   source_tree, tmp_dir, corpus>>
    /\ UNCHANGED <<run_vars, fingerprint_vars, load_vars>>

\* clone_repo: if os.path.exists(to_path+'.tmp'): shutil.rmtree(to_path+'.tmp')
CloneRmtreeTmp ==
    /\ dpc = "clone_tmp"
    /\ IF tmp_dir.exists
       THEN /\ tmp_dir' \in RmtreeSteps(tmp_dir)
            /\ dpc' = dpc
       ELSE /\ tmp_dir' = tmp_dir
            /\ dpc' = "clone_from"
    /\ UNCHANGED <<invocation, use_cache, direction, left_behind, remote_tree,
                   source_tree, clone_dir, corpus>>
    /\ UNCHANGED <<run_vars, fingerprint_vars, load_vars>>

\* clone_repo: git.Repo.clone_from(url, to_path+'.tmp', ...), which goes on,
\* ends, or raises GitCommandError and leaves what it had written.
CloneFrom ==
    /\ dpc = "clone_from"
    /\ IF tmp_dir = FreshClone(remote_tree)
       THEN /\ tmp_dir' = tmp_dir
            /\ dpc' = "move"
       ELSE \/ /\ tmp_dir' \in CloneSteps(tmp_dir, remote_tree)
               /\ dpc' = dpc
            \/ /\ tmp_dir' = tmp_dir
               /\ dpc' = "raised"
    /\ UNCHANGED <<invocation, use_cache, direction, left_behind, remote_tree,
                   source_tree, clone_dir, corpus>>
    /\ UNCHANGED <<run_vars, fingerprint_vars, load_vars>>

\* clone_repo: shutil.move(to_path+'.tmp', to_path), a rename inside WORK_DIR
CloneMove ==
    /\ dpc = "move"
    /\ clone_dir' = tmp_dir
    /\ tmp_dir' = AbsentDir
    /\ dpc' = "open"
    /\ UNCHANGED <<invocation, use_cache, direction, left_behind, remote_tree,
                   source_tree, corpus>>
    /\ UNCHANGED <<run_vars, fingerprint_vars, load_vars>>

\* repo.git.checkout('master'): the files go back to master unless they hold
\* changes that are not committed; those are kept when the branch and master
\* agree on them, and git refuses to switch otherwise.
CheckoutMaster(d) ==
    IF d.head = "master" THEN {d}
    ELSE IF d.files = d.branch_tree
    THEN {[d EXCEPT !.head = "master", !.files = remote_tree,
                    !.recipe = remote_tree # EmptyDict]}
    ELSE IF d.branch_tree = remote_tree THEN {[d EXCEPT !.head = "master"]}
    ELSE {}

\* repo = git.Repo(repo_dir), which raises on a directory without a
\* repository; repo.git.checkout('master')
OpenRepo ==
    /\ dpc = "open"
    /\ IF clone_dir.git /\ CheckoutMaster(clone_dir) # {}
       THEN /\ clone_dir' \in CheckoutMaster(clone_dir)
            /\ dpc' = "fingerprint"
       ELSE /\ clone_dir' = clone_dir
            /\ dpc' = "raised"
    /\ UNCHANGED <<invocation, use_cache, direction, left_behind, remote_tree,
                   source_tree, tmp_dir, corpus>>
    /\ UNCHANGED <<run_vars, fingerprint_vars, load_vars>>

\* get_recipe_contents(recipe_dir): the files it reads
ReadCorpus ==
    /\ dpc = "fingerprint"
    /\ corpus' = clone_dir.files
    /\ dpc' = "read"
    /\ UNCHANGED <<invocation, use_cache, direction, left_behind, remote_tree,
                   source_tree, clone_dir, tmp_dir>>
    /\ UNCHANGED <<run_vars, fingerprint_vars, load_vars>>

\* The process is terminated.
Terminate ==
    /\ dpc \in RunningAt
    /\ dpc' = "terminated"
    /\ UNCHANGED <<invocation, use_cache, direction, left_behind, remote_tree,
                   source_tree, clone_dir, tmp_dir, corpus>>
    /\ UNCHANGED <<run_vars, fingerprint_vars, load_vars>>

\* The script is started again, with or without -d.
NextInvocation ==
    /\ dpc \in {"terminated", "raised", "read", "synced", "skipped"}
    /\ invocation < MaxInvocations
    /\ invocation' = invocation + 1
    /\ use_cache' \in BOOLEAN
    /\ left_behind' = [dir |-> clone_dir, after |-> dpc]
    /\ corpus' = EmptyDict
    /\ dpc' = "check"
    /\ UNCHANGED <<direction, remote_tree, source_tree, clone_dir, tmp_dir>>
    /\ UNCHANGED <<run_vars, fingerprint_vars, load_vars>>

NextClone ==
    \/ CheckCache
    \/ CloneRmtreeTarget
    \/ CloneRmtreeTmp
    \/ CloneFrom
    \/ CloneMove
    \/ OpenRepo
    \/ ReadCorpus
    \/ Terminate
    \/ NextInvocation

\* ------------------------------------------------- the sync of one recipe

\* An invocation at the turn of a candidate recipe: the clone the sync writes
\* to was made by this invocation and is on master; in internalize the recipe
\* may have no directory in anaconda/packages.
InitSync ==
    /\ dpc = "branch"
    /\ invocation = 1
    /\ use_cache \in BOOLEAN
    /\ direction \in {"externalize", "internalize"}
    /\ remote_tree \in DiskTrees \cup (IF direction = "internalize" THEN {EmptyDict} ELSE {})
    /\ source_tree \in DiskTrees
    /\ clone_dir = FreshClone(remote_tree)
    /\ tmp_dir = AbsentDir
    /\ left_behind = NothingFound
    /\ corpus = EmptyDict

\* git.checkout('master', b=branch_name)
SyncBranch ==
    /\ dpc = "branch"
    /\ \/ /\ clone_dir' = [clone_dir EXCEPT !.head = "branch"]
          /\ dpc' = IF direction = "internalize" THEN "isdir" ELSE "rmtree"
       \/ /\ clone_dir' = clone_dir
          /\ dpc' = "raised"
    /\ UNCHANGED <<invocation, use_cache, direction, left_behind, remote_tree,
                   source_tree, tmp_dir, corpus>>
    /\ UNCHANGED <<run_vars, fingerprint_vars, load_vars>>

\* if not os.path.isdir(internal_recipe_dpath): ...; continue
SyncCheckDir ==
    /\ dpc = "isdir"
    /\ dpc' = IF clone_dir.recipe THEN "rmtree" ELSE "skipped"
    /\ UNCHANGED <<invocation, use_cache, direction, left_behind, remote_tree,
                   source_tree, clone_dir, tmp_dir, corpus>>
    /\ UNCHANGED <<run_vars, fingerprint_vars, load_vars>>

\* Replace without its shutil.rmtree: the files are copied over what is there.
ReplaceRmtreeKeepsFiles ==
    /\ dpc = "rmtree"
    /\ clone_dir' = [clone_dir EXCEPT !.recipe = FALSE]
    /\ dpc' = "copytree"
    /\ UNCHANGED <<invocation, use_cache, direction, left_behind, remote_tree,
                   source_tree, tmp_dir, corpus>>
    /\ UNCHANGED <<run_vars, fingerprint_vars, load_vars>>

\* shutil.rmtree(external_recipe_dpath) / shutil.rmtree(internal_recipe_dpath),
\* one removal at a time
ReplaceRmtree ==
    /\ dpc = "rmtree"
    /\ IF clone_dir.recipe
       THEN /\ clone_dir' \in RmtreeRecipeSteps(clone_dir)
            /\ dpc' = dpc
       ELSE /\ clone_dir' = clone_dir
            /\ dpc' = "copytree"
    /\ UNCHANGED <<invocation, use_cache, direction, left_behind, remote_tree,
                   source_tree, tmp_dir, corpus>>
    /\ UNCHANGED <<run_vars, fingerprint_vars, load_vars>>

\* shutil.copytree(source, destination): the directory is made, then the files
\* of the source are copied one at a time
ReplaceCopytree ==
    /\ dpc = "copytree"
    /\ IF ~clone_dir.recipe
       THEN /\ clone_dir' = [clone_dir EXCEPT !.recipe = TRUE]
            /\ dpc' = dpc
       ELSE IF DOMAIN source_tree \subseteq DOMAIN clone_dir.files
       THEN /\ clone_dir' = clone_dir
            /\ dpc' = "stage"
       ELSE /\ \E p \in DOMAIN source_tree \ DOMAIN clone_dir.files :
                  clone_dir' = [clone_dir EXCEPT !.files = With(clone_dir.files, p, source_tree[p])]
            /\ dpc' = dpc
    /\ UNCHANGED <<invocation, use_cache, direction, left_behind, remote_tree,
                   source_tree, tmp_dir, corpus>>
    /\ UNCHANGED <<run_vars, fingerprint_vars, load_vars>>

\* for untracked_file in repo.untracked_files: repo.git.add(untracked_file)
SyncStage ==
    /\ dpc = "stage"
    /\ dpc' = "commit"
    /\ UNCHANGED <<invocation, use_cache, direction, left_behind, remote_tree,
                   source_tree, clone_dir, tmp_dir, corpus>>
    /\ UNCHANGED <<run_vars, fingerprint_vars, load_vars>>

\* repo.git.commit('-a', '-m', ...): the files are committed on the branch, or
\* git exits non-zero
SyncCommit ==
    /\ dpc = "commit"
    /\ \/ /\ clone_dir' = [clone_dir EXCEPT !.branch_tree = clone_dir.files]
          /\ dpc' = "merge"
       \/ /\ clone_dir' = clone_dir
          /\ dpc' = "raised"
    /\ UNCHANGED <<invocation, use_cache, direction, left_behind, remote_tree,
                   source_tree, tmp_dir, corpus>>
    /\ UNCHANGED <<run_vars, fingerprint_vars, load_vars>>

\* repo.git.merge('master'): master is what the branch started from
SyncMerge ==
    /\ dpc = "merge"
    /\ dpc' \in {"synced", "raised"}
    /\ UNCHANGED <<invocation, use_cache, direction, left_behind, remote_tree,
                   source_tree, clone_dir, tmp_dir, corpus>>
    /\ UNCHANGED <<run_vars, fingerprint_vars, load_vars>>

NextSync ==
    \/ SyncBranch
    \/ SyncCheckDir
    \/ ReplaceRmtree
    \/ ReplaceCopytree
    \/ SyncStage
    \/ SyncCommit
    \/ SyncMerge
    \/ NextClone

\* ------------------------------------------------------- the specifications

IdleRun ==
    /\ action = "diff"
    /\ debug = FALSE
    /\ pc = "idle"
    /\ npages = 0
    /\ page_ct = 0
    /\ seen = {}
    /\ external_recipes = EmptyDict
    /\ dist_public_recipes = EmptyDict
    /\ diff_df = <<>>
    /\ recipes_to_update = <<>>
    /\ row = 0
    /\ ops = <<>>

Init == InitRun /\ IdleFingerprint /\ IdleLoad /\ IdleDisk

Next ==
    \/ GetPagesHeader
    \/ GetReposPage
    \/ GetAnacondaRecipeContents
    \/ GetRecipeDiff
    \/ DiffReturn
    \/ ExternalizeSelect
    \/ ExternalizeBranch
    \/ ExternalizeReplace
    \/ ExternalizeStage
    \/ ExternalizeCommit
    \/ ExternalizeMerge
    \/ ExternalizeDryRun
    \/ ExternalizePush
    \/ ExternalizePullRequest
    \/ ExternalizeReturn
    \/ InternalizeBranch
    \/ InternalizeSelect
    \/ InternalizeCheckDir
    \/ InternalizeReplace
    \/ InternalizeStage
    \/ InternalizeCommit
    \/ InternalizeMerge
    \/ InternalizeDryRun
    \/ InternalizePush
    \/ InternalizePullRequest

Spec == Init /\ [][Next]_vars

InitSpecFingerprint == IdleRun /\ InitFingerprint /\ IdleLoad /\ IdleDisk

SpecFingerprint == InitSpecFingerprint /\ [][NextFingerprint]_vars

InitSpecLoad == IdleRun /\ IdleFingerprint /\ InitLoad /\ IdleDisk

SpecLoad == InitSpecLoad /\ [][NextLoad]_vars

InitSpecClone == IdleRun /\ IdleFingerprint /\ IdleLoad /\ InitClone

SpecClone == InitSpecClone /\ [][NextClone]_vars

InitSpecSync == IdleRun /\ IdleFingerprint /\ IdleLoad /\ InitSync

SpecSync == InitSpecSync /\ [][NextSync]_vars

\* ------------------------------------------------------------------ claims

\* The table has been built and is the one the run works with.
TableBuilt == pc \notin {"head", "page", "dist", "diff", "raised"}

\* The rows have been selected and the loop of the action is running.
Selected ==
    pc \in {"ext_next", "ext_replace", "ext_stage", "ext_commit", "ext_merge",
            "ext_publish", "ext_pull", "int_next", "int_replace", "int_stage",
            "int_commit", "int_merge", "int_pull"}

\* The names of the rows of the table whose ContentsEqual cell is c.
RowsWith(c) == {diff_df[i].Recipe : i \in {j \in 1..Len(diff_df) : diff_df[j].ContentsEqual = c}}

\* The names of the rows present on the side the action copies from:
\* ContinuumIO for externalize, AnacondaRecipes for internalize.
OnSourceSide ==
    {diff_df[i].Recipe : i \in {j \in 1..Len(diff_df) :
        IF action = "externalize" THEN diff_df[j].ContinuumIO
                                  ELSE diff_df[j].AnacondaRecipes}}

SelectedNames == {recipes_to_update[i] : i \in 1..Len(recipes_to_update)}

\* The position of a selected recipe in recipes_to_update.
RowOf(r) == CHOOSE k \in 1..Len(recipes_to_update) : recipes_to_update[k] = r

\* C1, as stated: the recipes selected for synchronization are the rows whose
\* comparison column is false, plus the rows whose comparison column is
\* not-applicable and whose recipe is present on the source side; rows whose
\* comparison column is true are never selected.
C1_SelectsFalseAndSourceOnlyRows ==
    Selected =>
        SelectedNames = RowsWith(PyFalse) \cup (RowsWith(NaN) \cap OnSourceSide)

\* C1, amended: the recipes selected for synchronization are exactly the rows
\* whose comparison column is false, each once; rows whose comparison column is
\* true or not-applicable are never selected.
C1_SelectsExactlyFalseRows ==
    Selected =>
        /\ SelectedNames = RowsWith(PyFalse)
        /\ SelectedNames \cap (RowsWith(PyTrue) \cup RowsWith(NaN)) = {}
        /\ Len(recipes_to_update) = Cardinality(SelectedNames)

\* A table with a row to update and a source-only row, after the selection.
C1_Witness ==
    /\ Selected
    /\ RowsWith(PyFalse) # {}
    /\ RowsWith(NaN) \cap OnSourceSide # {}
    /\ recipes_to_update # <<>>

\* C2: a merge failure on one recipe does not abort the batch, and every later
\* candidate recipe of the table is still taken through its own sequence.
C2_MergeFailureIsolated ==
    \A i \in 1..Len(ops) :
        (ops[i].op = "merge" /\ ~ops[i].ok) =>
            /\ ~(i = Len(ops) /\ pc = "raised")
            /\ pc \in {"done", "raised"} =>
                  \A k \in 1..Len(recipes_to_update) :
                      (ops[i].recipe \in SelectedNames /\ k > RowOf(ops[i].recipe)) =>
                          \E j \in (i + 1)..Len(ops) :
                              ops[j].recipe = recipes_to_update[k]

\* C3: in the internalize direction a candidate whose internal destination
\* path does not exist is skipped: no replace, stage, commit or merge is done
\* for it, the skip raises nothing, the loop goes on with the next candidate,
\* and a run that returns has looked at every candidate.
C3_MissingInternalDirIsSkipped ==
    /\ \A i \in 1..Len(ops) :
          (ops[i].op = "isdir" /\ ~ops[i].ok) =>
              LET r == ops[i].recipe
                  k == RowOf(r)
              IN  /\ r \in SelectedNames
                  /\ \A j \in 1..Len(ops) :
                        ops[j].recipe = r =>
                            ops[j].op \notin {"replace", "stage", "commit", "merge"}
                  /\ i = Len(ops) =>
                        /\ pc \in {"int_next", "done"}
                        /\ row = k + 1
                  /\ i < Len(ops) =>
                        IF k < Len(recipes_to_update)
                        THEN ops[i + 1].op = "isdir"
                             /\ ops[i + 1].recipe = recipes_to_update[k + 1]
                        ELSE ops[i + 1].op = "push"
    /\ (pc = "done" /\ action = "internalize") =>
          \A k \in 1..Len(recipes_to_update) :
              \E j \in 1..Len(ops) :
                  ops[j].op = "isdir" /\ ops[j].recipe = recipes_to_update[k]

\* A run of internalize that returned after it skipped one candidate and
\* merged a later one.
C3_Witness ==
    /\ pc = "done"
    /\ action = "internalize"
    /\ \E i \in 1..Len(ops) : \E j \in (i + 1)..Len(ops) :
          /\ ops[i].op = "isdir" /\ ~ops[i].ok
          /\ ops[j].op = "merge" /\ ops[j].ok

\* The branch a recipe's commits are on: the recipe's own repository for
\* externalize, the one branch of the internal repository for internalize.
BranchOf(r) == IF action = "externalize" THEN r ELSE NoRecipe

\* C4: in a dry run no branch is pushed and no pull request is created; in a
\* run that is not a dry run every recipe that completed its merge is
\* followed, by the time the run has ended, by a push of its branch and, once
\* the push went through, by a pull request.
C4_DryRunAndPublish ==
    /\ debug => \A i \in 1..Len(ops) : ops[i].op \notin {"push", "pull"}
    /\ (~debug /\ pc \in {"done", "raised"}) =>
          \A i \in 1..Len(ops) :
              (ops[i].op = "merge" /\ ops[i].ok) =>
                  \E j \in (i + 1)..Len(ops) :
                      /\ ops[j].op = "push"
                      /\ ops[j].recipe = BranchOf(ops[i].recipe)
                      /\ ops[j].ok =>
                            \E l \in (j + 1)..Len(ops) :
                                /\ ops[l].op = "pull"
                                /\ ops[l].recipe = BranchOf(ops[i].recipe)

\* C5: the table has exactly |keys(A) \cup keys(B)| rows, every name of either
\* mapping is in exactly one row, and the two presence columns of a row say
\* whether its name is a key of A (AnacondaRecipes) and of B (ContinuumIO).
C5_OneRowPerNameOfTheUnion ==
    TableBuilt =>
        LET A == DOMAIN external_recipes
            B == DOMAIN dist_public_recipes
        IN  /\ Len(diff_df) = Cardinality(A \cup B)
            /\ \A n \in A \cup B :
                  Cardinality({i \in 1..Len(diff_df) : diff_df[i].Recipe = n}) = 1
            /\ \A i \in 1..Len(diff_df) :
                  /\ diff_df[i].AnacondaRecipes = (diff_df[i].Recipe \in A)
                  /\ diff_df[i].ContinuumIO = (diff_df[i].Recipe \in B)

\* A table of two corpora that share a name and differ in another.
C5_Witness ==
    /\ TableBuilt
    /\ (DOMAIN external_recipes) \cap (DOMAIN dist_public_recipes) # {}
    /\ DOMAIN external_recipes # DOMAIN dist_public_recipes
    /\ Len(diff_df) >= 2

\* C6: the comparison column of a row is the boolean left[name] = right[name]
\* exactly when the name is in both mappings, and not-applicable, which is
\* neither true nor false, when the name is in one mapping only.
C6_ComparisonColumn ==
    TableBuilt =>
        \A i \in 1..Len(diff_df) :
            LET r == diff_df[i].Recipe
                c == diff_df[i].ContentsEqual
            IN  IF r \in DOMAIN external_recipes /\ r \in DOMAIN dist_public_recipes
                THEN /\ c \in {PyTrue, PyFalse}
                     /\ (c = PyTrue) <=> (external_recipes[r] = dist_public_recipes[r])
                ELSE /\ c = NaN
                     /\ c \notin {PyTrue, PyFalse}

\* A table with a row of one corpus only next to a compared row.
C6_Witness ==
    /\ TableBuilt
    /\ RowsWith(NaN) # {}
    /\ RowsWith(PyTrue) \cup RowsWith(PyFalse) # {}

\* C7: the loop takes the candidate recipes in the lexicographic order of
\* their names: the selected names are in ascending order, and the operations
\* done are those of the selected names in that order, each recipe's
\* operations together.
C7_ProcessedInNameOrder ==
    /\ Selected =>
          \A i, j \in 1..Len(recipes_to_update) :
              i < j => StrLess(recipes_to_update[i], recipes_to_update[j])
    /\ \A i, j \in 1..Len(ops) :
          (i < j /\ ops[i].recipe # NoRecipe /\ ops[j].recipe # NoRecipe) =>
              \/ ops[i].recipe = ops[j].recipe
              \/ StrLess(ops[i].recipe, ops[j].recipe)

\* A run that has worked on two recipes.
C7_Witness ==
    /\ pc = "done"
    /\ \E i, j \in 1..Len(ops) :
          /\ ops[i].recipe # NoRecipe
          /\ ops[j].recipe # NoRecipe
          /\ ops[i].recipe # ops[j].recipe

\* C8: every hosting-API call that comes back as a failure (the page-count
\* query, a listing page, a pull-request creation) aborts the run: the run
\* never goes on past it and never returns 0 after it.
C8_ApiFailureIsFatal ==
    \A i \in 1..Len(ops) :
        (ops[i].op \in {"head", "page", "pull"} /\ ~ops[i].ok) => pc = "raised"

\* The bytes of the file at a path of a recipe directory, none when there is
\* no such file.
BytesAt(tree, path) == IF path \in DOMAIN tree THEN tree[path] ELSE <<>>

\* The two directories of the recipe differ in at least one byte of one file.
DifferInAByte ==
    \E path \in (DOMAIN external_tree) \cup (DOMAIN internal_tree) :
        BytesAt(external_tree, path) # BytesAt(internal_tree, path)

\* C9: for a recipe present in both corpora the equality column is true
\* whenever the two corpora hold byte-identical files for it, whatever order
\* the walk visits the sub-directories in, and false whenever the two differ
\* in at least one byte of one file.
C9_EqualityColumnIsFaithful ==
    fpc = "done" =>
        /\ external_tree = internal_tree => contents_equal = PyTrue
        /\ DifferInAByte => contents_equal = PyFalse

\* The recipe directories the load has found, over all its calls of
\* get_recipe_contents.
LoadedRecipeDirs ==
    UNION {RecipeDirs(recipe_roots, SubSeq(p, 1, Len(base_dir) + 1)) :
              p \in DOMAIN recipe_roots}

\* Two different recipe roots resolve to the same recipe name.
NameCollision ==
    \E r1, r2 \in LoadedRecipeDirs :
        r1 # r2 /\ RecipeNameOf(r1) = RecipeNameOf(r2)

\* C10: when two different recipe roots resolve to the same recipe name while
\* a corpus is loaded, the load fails with an error: it does not return a
\* dict in which one signature has silently replaced the other.
C10_NameCollisionFails ==
    NameCollision => lpc # "loaded"

\* The steps of the sync sequence, as the log names them.
SyncSteps == {"branch", "replace", "stage", "commit", "merge", "push", "pull"}

\* The positions of the log that hold a step of the sync sequence.
SyncOps == {i \in 1..Len(ops) : ops[i].op \in SyncSteps}

\* C11: once a page of the organization listing has held a repository whose
\* name does not end with '-recipe', the run has ended with an error, the diff
\* table has not been built and no step of the sync sequence has been done.
C11_OddRepoNameIsFatal ==
    (\E i \in 1..Len(ops) : ops[i].op = "assert" /\ ~EndsWith(ops[i].recipe, DashRecipe)) =>
        /\ pc = "raised"
        /\ diff_df = <<>>
        /\ recipes_to_update = <<>>
        /\ SyncOps = {}

\* An externalize run whose second page lists '9-recipes', after a first page
\* that listed repositories with the expected names.
C11_Witness ==
    /\ action = "externalize"
    /\ external_recipes # EmptyDict
    /\ \E i \in 1..Len(ops) : ops[i] = Op("assert", OddRepoName, FALSE)
    /\ pc = "raised"

\* The step that comes before a step in the sequence of a recipe.
StepBefore(step) ==
    CASE step = "replace" -> "branch"
      [] step = "stage" -> "replace"
      [] step = "commit" -> "stage"
      [] step = "merge" -> "commit"
      [] step = "push" -> "merge"
      [] step = "pull" -> "push"
      [] OTHER -> "none"

\* The step at position i of the log comes right after the step before it of
\* the same recipe, which succeeded.
FollowsItsStep(i) ==
    /\ i > 1
    /\ ops[i - 1] = Op(StepBefore(ops[i].op), ops[i].recipe, TRUE)

\* A step that fails is the last thing the run does; the creation of the pull
\* request is the last step of its sequence anyway.
FailureEndsSequence ==
    \A i \in SyncOps : (~ops[i].ok /\ ops[i].op # "pull") => i = Len(ops)

\* The sequence of externalize: every step but Branch follows its step, Branch
\* is the recipe's own, and without debug a Reconcile that succeeded is followed
\* by the push of that recipe.
ExternalizeSequence ==
    /\ \A i \in SyncOps :
          /\ ops[i].recipe # NoRecipe
          /\ ops[i].op # "branch" => FollowsItsStep(i)
          /\ (ops[i] = Op("merge", ops[i].recipe, TRUE) /\ ~debug) =>
                /\ i = Len(ops) => pc = "ext_publish"
                /\ i < Len(ops) => ops[i + 1].op = "push" /\ ops[i + 1].recipe = ops[i].recipe

\* C12, as claimed: in both directions every step of a recipe but its Branch
\* comes right after the previous step of that same recipe, so each recipe has
\* a Branch of its own before its Replace and its own Publish after its
\* Reconcile, and a failing step ends the sequence.
C12_SameSequenceInBothDirections ==
    action \in {"externalize", "internalize"} =>
        /\ FailureEndsSequence
        /\ \A i \in SyncOps :
              /\ ops[i].recipe # NoRecipe
              /\ ops[i].op # "branch" => FollowsItsStep(i)

\* C12, amended: externalize runs Branch, Replace, Stage, Commit, Reconcile,
\* Publish for each candidate. Internalize creates one branch for the run
\* before the first candidate; a candidate that is not skipped runs Replace
\* (right after the directory check that found its directory), Stage, Commit,
\* Reconcile in that order; the one Publish of the run comes after the last
\* candidate and nothing of a recipe comes after it. In both directions a step
\* starts only after the previous one succeeded, and a failing step ends the
\* sequence.
C12_SequencePerDirection ==
    /\ action \in {"externalize", "internalize"} => FailureEndsSequence
    /\ action = "externalize" => ExternalizeSequence
    /\ action = "internalize" =>
          \A i \in SyncOps :
              /\ ops[i].op = "branch" =>
                    /\ ops[i].recipe = NoRecipe
                    /\ \A j \in 1..(i - 1) : j \notin SyncOps /\ ops[j].op # "isdir"
              /\ ops[i].op = "replace" =>
                    /\ ops[i].recipe # NoRecipe
                    /\ i > 1
                    /\ ops[i - 1] = Op("isdir", ops[i].recipe, TRUE)
                    /\ \E j \in 1..(i - 1) : ops[j] = Op("branch", NoRecipe, TRUE)
              /\ ops[i].op \in {"stage", "commit", "merge"} => FollowsItsStep(i)
              /\ ops[i].op = "push" =>
                    /\ ops[i].recipe = NoRecipe
                    /\ row > Len(recipes_to_update)
                    /\ ops[i - 1] \in {Op("branch", NoRecipe, TRUE)}
                                      \cup {Op("merge", r, TRUE) : r \in RecipeNames}
                                      \cup {Op("isdir", r, FALSE) : r \in RecipeNames}
                    /\ \A j \in (i + 1)..Len(ops) : ops[j].op = "pull"
              /\ ops[i].op = "pull" => FollowsItsStep(i)

\* An internalize run that is over: two candidates went through their
\* sequence on the one branch of the run, and the one push and pull request
\* followed.
C12_Witness ==
    /\ action = "internalize"
    /\ pc = "done"
    /\ Len(recipes_to_update) = 2
    /\ \A r \in SelectedNames : \E i \in SyncOps : ops[i] = Op("merge", r, TRUE)
    /\ \E i \in SyncOps : ops[i].op = "pull"

\* C13: whenever the process has been terminated, the directory of the clone
\* exists only if it holds the complete clone; and an invocation with use_cache
\* reads the files of master in it.
C13_CloneRepoIsAtomic ==
    /\ (dpc = "terminated" /\ clone_dir.exists) => clone_dir = FreshClone(remote_tree)
    /\ (dpc = "read" /\ use_cache) => corpus = remote_tree

\* C14, as claimed: an invocation that follows another one reads, in the
\* clone, the files of master of the remote repository, with or without the
\* debug flag.
C14_NextInvocationReadsMainline ==
    (invocation > 1 /\ dpc = "read") => corpus = remote_tree

\* C14, amended: an invocation without the debug flag that follows another one
\* reads the files of master of the remote repository in a clone made afresh;
\* an invocation with the flag that finds the directory reads the files the
\* invocation before left in it, as the checkout of master leaves them.
C14_FreshCloneWithoutDebug ==
    (invocation > 1 /\ dpc = "read") =>
        IF ~use_cache \/ ~left_behind.dir.exists
        THEN /\ corpus = remote_tree
             /\ clone_dir = FreshClone(remote_tree)
        ELSE \E d \in CheckoutMaster(left_behind.dir) : corpus = d.files

\* The first invocation was terminated between Replace and Commit, its branch
\* holding files that are not those of master; the second one, without the
\* debug flag, has read the clone.
C14_Witness ==
    /\ invocation = 2
    /\ dpc = "read"
    /\ ~use_cache
    /\ left_behind.after = "terminated"
    /\ left_behind.dir.head = "branch"
    /\ left_behind.dir.files = source_tree
    /\ source_tree # remote_tree
    /\ corpus = remote_tree

\* C15: once Replace is over the recipe directory of the destination holds the
\* files of the source and nothing else, each with the bytes of the source.
C15_ReplaceMirrorsSource ==
    (invocation = 1 /\ dpc \in {"stage", "commit", "merge", "synced"}) =>
        /\ clone_dir.recipe
        /\ DOMAIN clone_dir.files = DOMAIN source_tree
        /\ \A p \in DOMAIN source_tree : clone_dir.files[p] = source_tree[p]

\* Replace is over for a destination that held a build.sh the source has not,
\* and a meta.yaml with other bytes than the one of the source.
C15_Witness ==
    /\ invocation = 1
    /\ dpc = "stage"
    /\ <<BuildSh>> \in DOMAIN remote_tree \ DOMAIN source_tree
    /\ remote_tree[<<MetaYaml>>] # source_tree[<<MetaYaml>>]
    /\ clone_dir.files = source_tree

\* The positions of the log that hold the step named.
OpsNamed(step) == {i \in 1..Len(ops) : ops[i].op = step}

\* The positions of the log that hold something done for one recipe.
RecipeOps == {i \in 1..Len(ops) : ops[i].op \in {"isdir", "replace", "stage", "commit", "merge"}}

\* C16: an internalize run makes at most one branch, and makes it before
\* anything is done for a recipe; it pushes and creates a pull request at most
\* once, without debug only, after the last candidate; and a run that returns
\* has made exactly one branch and, without debug, ends with exactly one push
\* and one pull-request creation, whatever the number of candidates and
\* whether or not they were skipped.
C16_InternalizeOneBranchOnePublish ==
    action = "internalize" =>
        /\ Cardinality(OpsNamed("branch")) <= 1
        /\ Cardinality(OpsNamed("push")) <= 1
        /\ Cardinality(OpsNamed("pull")) <= 1
        /\ \A i \in RecipeOps : \E j \in 1..(i - 1) : ops[j] = Op("branch", NoRecipe, TRUE)
        /\ \A i \in OpsNamed("push") \cup OpsNamed("pull") :
              /\ ~debug
              /\ row > Len(recipes_to_update)
              /\ \A j \in RecipeOps \cup OpsNamed("branch") : j < i
        /\ pc = "done" =>
              /\ Cardinality(OpsNamed("branch")) = 1
              /\ debug => OpsNamed("push") \cup OpsNamed("pull") = {}
              /\ ~debug =>
                    /\ Len(ops) >= 3
                    /\ ops[Len(ops) - 1] = Op("push", NoRecipe, TRUE)
                    /\ ops[Len(ops)].op = "pull"
                    /\ ops[Len(ops)].recipe = NoRecipe

\* An internalize run without debug has returned: it had candidates, skipped
\* every one of them, and pushed its branch and created its pull request.
C16_Witness ==
    /\ action = "internalize"
    /\ ~debug
    /\ pc = "done"
    /\ Len(recipes_to_update) = 2
    /\ OpsNamed("replace") = {}
    /\ Cardinality(OpsNamed("isdir")) = 2
    /\ OpsNamed("push") # {}
    /\ OpsNamed("pull") # {}

\* C17: a run with action 'diff' does no step of the sync sequence and checks
\* no recipe directory; when it has returned, the diff table is the one of the
\* two corpora it loaded, and no recipe was selected.
C17_DiffIsReadOnly ==
    action = "diff" =>
        /\ SyncOps = {}
        /\ RecipeOps = {}
        /\ recipes_to_update = <<>>
        /\ pc \in {"head", "page", "dist", "diff", "action", "done", "raised", "idle"}
        /\ pc = "done" => diff_df = CalcRecipeDiff(external_recipes, dist_public_recipes)

\* A 'diff' run has returned with a table that holds a row whose contents
\* differ, which a sync would have selected.
C17_Witness ==
    /\ action = "diff"
    /\ pc = "done"
    /\ \E i \in 1..Len(diff_df) : diff_df[i].ContentsEqual = PyFalse
    /\ ops = <<>>

====
